---- MODULE Spec2Model ----
(***************************************************************************)
(* Model of grafana/resource_datasource_permission.go: the Terraform       *)
(* resource that manages the permissions of one Grafana datasource.        *)
(*                                                                         *)
(* Every remote call of a handler (AddDatasourcePermission,                *)
(* DatasourcePermissions, RemoveDatasourcePermission) is one atomic step;  *)
(* the local code between two remote calls belongs to the step of the call *)
(* that precedes it.  Strings the code inspects or builds (error messages, *)
(* the resource id) are sequences of one-character strings.                *)
(***************************************************************************)
EXTENDS Integers, Sequences, FiniteSets, TLC

VARIABLES
    datasourceID,   \* d.Get("datasource_id"), fixed for the resource (ForceNew)
    records,        \* the server's permission records of the datasource, in order
    pc,             \* per invocation slot: position in the running handler
    op,             \* per slot: the handler running and its desired set
    d,              \* per slot: schema.ResourceData: id and "permissions"
    todo,           \* per slot: Update: grants of the set not yet iterated
    listed,         \* per slot: Delete: listed records not yet iterated
    calls,          \* per slot: remote calls of the current invocation, in order
    result,         \* per slot: diagnostics returned by the last handler
    pre,            \* per slot: records, id and permissions when the handler began
    prev,           \* per slot: summary of the invocation before the current one
    nops            \* number of handler invocations begun

vars == <<datasourceID, records, pc, op, d, todo, listed, calls, result, pre,
          prev, nops>>

-----------------------------------------------------------------------------
(* Bounds of the model. *)

MaxOps == 2

Procs == {"p1", "p2"}
Main == "p1"

DatasourceIDs == {-4, 12}

-----------------------------------------------------------------------------
(* Strings as sequences of characters. *)

NoErr == <<>>
EmptyId == <<>>

Status404 == <<"s","t","a","t","u","s",":"," ","4","0","4">>

ErrNotFound == Status404 \o <<",">>
ErrServer == <<"s","t","a","t","u","s",":"," ","5","0","0">>
ErrWrapped == <<"e", " ">> \o Status404

ErrorMessages == {ErrNotFound, ErrServer, ErrWrapped}

HasPrefix(s, prefix) ==
    /\ Len(s) >= Len(prefix)
    /\ SubSeq(s, 1, Len(prefix)) = prefix

Digit(k) == <<"0","1","2","3","4","5","6","7","8","9">>[k + 1]

RECURSIVE FormatNat(_)
FormatNat(n) ==
    IF n < 10 THEN <<Digit(n)>>
    ELSE Append(FormatNat(n \div 10), Digit(n % 10))

FormatInt(n) == IF n < 0 THEN <<"-">> \o FormatNat(-n) ELSE FormatNat(n)

-----------------------------------------------------------------------------
(* Permission codec. *)

\* Fault: an unknown permission is encoded as 0 instead of -1.
mapDatasourcePermissionStringToInt64ZeroDefault(permission) ==
    IF permission = "Query" THEN 1 ELSE 0

mapDatasourcePermissionStringToInt64(permission) ==
    IF permission = "Query" THEN 1 ELSE -1

\* Fault: the decoder matches another code than the encoder produces.
mapDatasourcePermissionInt64ToStringOffByOne(permission) ==
    IF permission = 0 THEN "Query" ELSE "-1"

mapDatasourcePermissionInt64ToString(permission) ==
    IF permission = 1 THEN "Query" ELSE "-1"

ValidPermissions == {"Query"}

-----------------------------------------------------------------------------
(* Values. *)

\* Planned "permissions" items: team_id/user_id at the default 0, at -1 and
\* set; a permission inside and outside the schema's allow-list.
Grants ==
    { [team_id |-> 5, user_id |-> 0, permission |-> "Query"],
      [team_id |-> -1, user_id |-> -1, permission |-> "Query"],
      [team_id |-> 5, user_id |-> 2, permission |-> "bogus"] }

DesiredSets == SUBSET Grants

\* What the server may hold before the first handler runs.
InitRecords ==
    { <<>>,
      <<[teamID |-> 5, userID |-> 0, permission |-> 1]>>,
      <<[teamID |-> 0, userID |-> 2, permission |-> 2],
        [teamID |-> 7, userID |-> 0, permission |-> 1]>> }

Ok == [status |-> "ok", err |-> NoErr]
Failed(err) == [status |-> "error", err |-> err]
NoResult == [status |-> "none", err |-> NoErr]

Call(api, arg, err, ret) == [api |-> api, arg |-> arg, err |-> err, ret |-> ret]

NoOp == [name |-> "none", desired |-> {}]

-----------------------------------------------------------------------------
(* The remote API (grafana-api-golang-client against the Grafana server). *)

AddDatasourcePermission(recs, payload) == Append(recs, payload)

RECURSIVE RemoveDatasourcePermission(_, _)
RemoveDatasourcePermission(recs, code) ==
    IF recs = <<>> THEN <<>>
    ELSE IF Head(recs).permission = code
         THEN RemoveDatasourcePermission(Tail(recs), code)
         ELSE <<Head(recs)>> \o RemoveDatasourcePermission(Tail(recs), code)

-----------------------------------------------------------------------------
(* Local pieces of the handlers. *)

\* Fault: the empty set is not told from a set with items.
GetOkAlways(desired) == TRUE

GetOk(desired) == desired # {}

\* Fault: the payload's team is taken from the item's user_id.
PayloadTeamIDFromUser(permission) ==
    IF permission.user_id # -1 THEN permission.user_id ELSE 0

PayloadTeamID(permission) ==
    IF permission.team_id # -1 THEN permission.team_id ELSE 0

\* Fault: the user is sent only when the item names no team.
PayloadUserIDWithoutTeam(permission) ==
    IF permission.user_id # -1 /\ permission.team_id \in {0, -1}
    THEN permission.user_id ELSE 0

PayloadUserID(permission) ==
    IF permission.user_id # -1 THEN permission.user_id ELSE 0

PermissionItem(permission) ==
    [teamID |-> PayloadTeamID(permission),
     userID |-> PayloadUserID(permission),
     permission |-> mapDatasourcePermissionStringToInt64(permission.permission)]

\* Fault: the sign of the datasource id is lost in the id.
NewIdUnsigned(id) == FormatNat(IF id < 0 THEN -id ELSE id)

NewId(id) == FormatInt(id)

\* Fault: only the bare message "status: 404" counts as not-found.
IsNotFoundExact(err) == err = Status404

\* Fault: "status: 404" anywhere in the message counts as not-found.
IsNotFoundAnywhere(err) ==
    \E i \in 0..Len(err) :
        /\ i + Len(Status404) <= Len(err)
        /\ SubSeq(err, i + 1, i + Len(Status404)) = Status404

IsNotFound(err) == HasPrefix(err, Status404)

\* Fault: team and user are exchanged in the state item.
StateItemSwapped(permission) ==
    [team_id |-> permission.userID,
     user_id |-> permission.teamID,
     permission |-> mapDatasourcePermissionInt64ToString(permission.permission)]

StateItem(permission) ==
    [team_id |-> permission.teamID,
     user_id |-> permission.userID,
     permission |-> mapDatasourcePermissionInt64ToString(permission.permission)]

PermissionItems(response) == {StateItem(response[i]) : i \in 1..Len(response)}

\* Fault: the not-found error of the list call is returned like any other.
ReadResultSurfacingNotFound(dp, response, err) ==
    IF err # NoErr
    THEN [d |-> dp, result |-> Failed(err)]
    ELSE [d |-> [dp EXCEPT !.permissions =
                    {[team_id |-> response[i].teamID,
                      user_id |-> response[i].userID,
                      permission |-> mapDatasourcePermissionInt64ToString(
                                         response[i].permission)] :
                        i \in 1..Len(response)}],
          result |-> Ok]

\* Fault: SetId("") is reached on the success path too.
ReadResultClearingId(dp, response, err) ==
    IF err # NoErr
    THEN IF HasPrefix(err, Status404)
         THEN [d |-> [dp EXCEPT !.id = EmptyId], result |-> Ok]
         ELSE [d |-> dp, result |-> Failed(err)]
    ELSE [d |-> [id |-> EmptyId,
                 permissions |->
                    {[team_id |-> response[i].teamID,
                      user_id |-> response[i].userID,
                      permission |-> mapDatasourcePermissionInt64ToString(
                                         response[i].permission)] :
                        i \in 1..Len(response)}],
          result |-> Ok]

\* ReadDatasourcePermissions after its list call returned (response, err).
ReadResult(dp, response, err) ==
    IF err # NoErr
    THEN IF IsNotFound(err)
         THEN [d |-> [dp EXCEPT !.id = EmptyId], result |-> Ok]
         ELSE [d |-> dp, result |-> Failed(err)]
    ELSE [d |-> [dp EXCEPT !.permissions = PermissionItems(response)],
          result |-> Ok]

\* Fault: Delete clears the id once the list call succeeded.
DeleteListResultClearingId(dp, response, err) ==
    IF err # NoErr
    THEN IF HasPrefix(err, Status404)
         THEN [d |-> [dp EXCEPT !.id = EmptyId], result |-> Ok, pc |-> "done"]
         ELSE [d |-> dp, result |-> Failed(err), pc |-> "done"]
    ELSE IF response = <<>>
         THEN [d |-> [dp EXCEPT !.id = EmptyId], result |-> Ok, pc |-> "done"]
         ELSE [d |-> [dp EXCEPT !.id = EmptyId], result |-> NoResult,
               pc |-> "remove"]

\* DeleteDatasourcePermissions after its list call returned (response, err).
DeleteListResult(dp, response, err) ==
    IF err # NoErr
    THEN IF IsNotFound(err)
         THEN [d |-> [dp EXCEPT !.id = EmptyId], result |-> Ok, pc |-> "done"]
         ELSE [d |-> dp, result |-> Failed(err), pc |-> "done"]
    ELSE IF response = <<>>
         THEN [d |-> dp, result |-> Ok, pc |-> "done"]
         ELSE [d |-> dp, result |-> NoResult, pc |-> "remove"]

\* Fault: the loop body clears the records of the item's permission code
\* before it adds the item.
UpdateRemoteReplacing(recs, permissionItem) ==
    AddDatasourcePermission(
        RemoveDatasourcePermission(recs, permissionItem.permission),
        permissionItem)

\* Line 86: the one remote mutation of a loop iteration of Update.
UpdateRemote(recs, permissionItem) ==
    AddDatasourcePermission(recs, permissionItem)

\* Lines 69-73 of UpdateDatasourcePermissions: the state before the first
\* iteration of its loop (a loop over no item falls through to SetId).
UpdateStart(dp, desired, id) ==
    IF ~GetOk(desired)
    THEN [d |-> dp, todo |-> {}, result |-> Ok, pc |-> "done"]
    ELSE IF desired = {}
         THEN [d |-> [dp EXCEPT !.id = NewId(id)], todo |-> {},
               result |-> NoResult, pc |-> "readback"]
         ELSE [d |-> dp, todo |-> desired, result |-> NoResult, pc |-> "add"]

\* Fault: the error of AddDatasourcePermission is dropped and the loop goes on.
AddResultIgnoringError(dp, remaining, permission, err, id) ==
    IF remaining = {permission}
    THEN [d |-> [dp EXCEPT !.id = NewId(id)], todo |-> {},
          result |-> NoResult, pc |-> "readback"]
    ELSE [d |-> dp, todo |-> remaining \ {permission},
          result |-> NoResult, pc |-> "add"]

\* Fault: the id is set in every iteration, before the call's error is looked at.
AddResultSettingIdEarly(dp, remaining, permission, err, id) ==
    IF err # NoErr
    THEN [d |-> [dp EXCEPT !.id = FormatInt(id)], todo |-> remaining,
          result |-> Failed(err), pc |-> "done"]
    ELSE IF remaining = {permission}
         THEN [d |-> [dp EXCEPT !.id = FormatInt(id)], todo |-> {},
               result |-> NoResult, pc |-> "readback"]
         ELSE [d |-> [dp EXCEPT !.id = FormatInt(id)],
               todo |-> remaining \ {permission},
               result |-> NoResult, pc |-> "add"]

\* Lines 86-92: after AddDatasourcePermission for `permission` returned err.
AddResult(dp, remaining, permission, err, id) ==
    IF err # NoErr
    THEN [d |-> dp, todo |-> remaining, result |-> Failed(err), pc |-> "done"]
    ELSE IF remaining = {permission}
         THEN [d |-> [dp EXCEPT !.id = NewId(id)], todo |-> {},
               result |-> NoResult, pc |-> "readback"]
         ELSE [d |-> dp, todo |-> remaining \ {permission},
               result |-> NoResult, pc |-> "add"]

\* Fault: removal keyed by the record's team instead of its permission code.
RemoveKeyByTeam(permission) == permission.teamID

\* Line 147: the key RemoveDatasourcePermission is called with.
RemoveKey(permission) == permission.permission

\* Fault: a successful removal also skips the record listed after it.
RemoveResultSkippingNext(remaining, err) ==
    IF err # NoErr
    THEN [listed |-> remaining, result |-> Failed(err), pc |-> "done"]
    ELSE IF Len(remaining) <= 2
         THEN [listed |-> <<>>, result |-> Ok, pc |-> "done"]
         ELSE [listed |-> Tail(Tail(remaining)), result |-> NoResult,
               pc |-> "remove"]

\* Fault: the loop returns after its first successful removal.
RemoveResultStoppingEarly(remaining, err) ==
    IF err # NoErr
    THEN [listed |-> remaining, result |-> Failed(err), pc |-> "done"]
    ELSE [listed |-> Tail(remaining), result |-> Ok, pc |-> "done"]

\* Lines 147-153: after RemoveDatasourcePermission for the head of
\* `remaining` returned err.
RemoveResult(remaining, err) ==
    IF err # NoErr
    THEN [listed |-> remaining, result |-> Failed(err), pc |-> "done"]
    ELSE IF Tail(remaining) = <<>>
         THEN [listed |-> <<>>, result |-> Ok, pc |-> "done"]
         ELSE [listed |-> Tail(remaining), result |-> NoResult, pc |-> "remove"]

-----------------------------------------------------------------------------
(* State machine. *)

Init ==
    /\ datasourceID \in DatasourceIDs
    /\ records \in InitRecords
    /\ pc = [p \in Procs |-> "idle"]
    /\ op = [p \in Procs |-> NoOp]
    /\ d = [p \in Procs |-> [id |-> EmptyId, permissions |-> {}]]
    /\ todo = [p \in Procs |-> {}]
    /\ listed = [p \in Procs |-> <<>>]
    /\ calls = [p \in Procs |-> <<>>]
    /\ result = [p \in Procs |-> NoResult]
    /\ pre = [p \in Procs |-> [records |-> <<>>, id |-> EmptyId, permissions |-> {}]]
    /\ prev = [p \in Procs |-> [op |-> NoOp, clean |-> FALSE]]
    /\ nops = 0

CanBegin(p) ==
    /\ pc[p] \in {"idle", "done"}
    /\ nops < MaxOps

AllOk(log) == \A i \in 1..Len(log) : log[i].err = NoErr

\* Bookkeeping common to the start of every handler.
Begin(p, name, desired) ==
    /\ nops' = nops + 1
    /\ op' = [op EXCEPT ![p] = [name |-> name, desired |-> desired]]
    /\ pre' = [pre EXCEPT ![p] = [records |-> records, id |-> d[p].id,
                                  permissions |-> d[p].permissions]]
    /\ prev' = [prev EXCEPT ![p] = [op |-> op[p],
                                    clean |-> /\ result[p] = Ok
                                              /\ AllOk(calls[p])]]

\* Lines 66-73: the handler is called with the planned permissions in d.
UpdateBegin(p) ==
    \E desired \in DesiredSets :
        LET out == UpdateStart([d[p] EXCEPT !.permissions = desired], desired,
                               datasourceID) IN
        /\ CanBegin(p)
        /\ Begin(p, "Update", desired)
        /\ calls' = [calls EXCEPT ![p] = <<>>]
        /\ listed' = [listed EXCEPT ![p] = <<>>]
        /\ d' = [d EXCEPT ![p] = out.d]
        /\ todo' = [todo EXCEPT ![p] = out.todo]
        /\ result' = [result EXCEPT ![p] = out.result]
        /\ pc' = [pc EXCEPT ![p] = out.pc]
        /\ UNCHANGED <<datasourceID, records>>

\* Lines 75-92: one iteration of the loop, and SetId after the last one.
UpdateAdd(p) ==
    /\ pc[p] = "add"
    /\ \E permission \in todo[p], err \in {NoErr} \cup ErrorMessages :
        LET permissionItem == PermissionItem(permission)
            out == AddResult(d[p], todo[p], permission, err, datasourceID) IN
        /\ calls' = [calls EXCEPT ![p] =
                        Append(@, Call("Add", permissionItem, err, <<>>))]
        /\ records' = IF err = NoErr
                      THEN UpdateRemote(records, permissionItem)
                      ELSE records
        /\ d' = [d EXCEPT ![p] = out.d]
        /\ todo' = [todo EXCEPT ![p] = out.todo]
        /\ result' = [result EXCEPT ![p] = out.result]
        /\ pc' = [pc EXCEPT ![p] = out.pc]
    /\ UNCHANGED <<datasourceID, op, listed, pre, prev, nops>>

\* Line 94: return ReadDatasourcePermissions(ctx, d, meta).
UpdateReadBack(p) ==
    /\ pc[p] = "readback"
    /\ \E err \in {NoErr} \cup ErrorMessages :
        LET response == IF err = NoErr THEN records ELSE <<>>
            out == ReadResult(d[p], response, err) IN
        /\ calls' = [calls EXCEPT ![p] =
                        Append(@, Call("List", datasourceID, err, response))]
        /\ d' = [d EXCEPT ![p] = out.d]
        /\ result' = [result EXCEPT ![p] = out.result]
        /\ pc' = [pc EXCEPT ![p] = "done"]
    /\ UNCHANGED <<datasourceID, records, op, todo, listed, pre, prev, nops>>

UpdateDatasourcePermissions(p) ==
    UpdateBegin(p) \/ UpdateAdd(p) \/ UpdateReadBack(p)

\* Lines 97-128.
ReadDatasourcePermissions(p) ==
    /\ CanBegin(p)
    /\ Begin(p, "Read", {})
    /\ \E err \in {NoErr} \cup ErrorMessages :
        LET response == IF err = NoErr THEN records ELSE <<>>
            out == ReadResult(d[p], response, err) IN
        /\ calls' = [calls EXCEPT ![p] =
                        <<Call("List", datasourceID, err, response)>>]
        /\ d' = [d EXCEPT ![p] = out.d]
        /\ result' = [result EXCEPT ![p] = out.result]
        /\ pc' = [pc EXCEPT ![p] = "done"]
    /\ todo' = [todo EXCEPT ![p] = {}]
    /\ listed' = [listed EXCEPT ![p] = <<>>]
    /\ UNCHANGED <<datasourceID, records>>

\* Lines 130-144: the list call of Delete.
DeleteList(p) ==
    /\ CanBegin(p)
    /\ Begin(p, "Delete", {})
    /\ \E err \in {NoErr} \cup ErrorMessages :
        LET response == IF err = NoErr THEN records ELSE <<>>
            out == DeleteListResult(d[p], response, err) IN
        /\ calls' = [calls EXCEPT ![p] =
                        <<Call("List", datasourceID, err, response)>>]
        /\ d' = [d EXCEPT ![p] = out.d]
        /\ result' = [result EXCEPT ![p] = out.result]
        /\ pc' = [pc EXCEPT ![p] = out.pc]
        /\ listed' = [listed EXCEPT ![p] = response]
    /\ todo' = [todo EXCEPT ![p] = {}]
    /\ UNCHANGED <<datasourceID, records>>

\* Lines 146-153: one iteration of the removal loop.
DeleteRemove(p) ==
    /\ pc[p] = "remove"
    /\ \E err \in {NoErr} \cup ErrorMessages :
        LET key == RemoveKey(Head(listed[p]))
            out == RemoveResult(listed[p], err) IN
        /\ calls' = [calls EXCEPT ![p] =
                        Append(@, Call("Remove", key, err, <<>>))]
        /\ records' = IF err = NoErr
                      THEN RemoveDatasourcePermission(records, key)
                      ELSE records
        /\ listed' = [listed EXCEPT ![p] = out.listed]
        /\ result' = [result EXCEPT ![p] = out.result]
        /\ pc' = [pc EXCEPT ![p] = out.pc]
    /\ UNCHANGED <<datasourceID, op, d, todo, pre, prev, nops>>

DeleteDatasourcePermissions(p) == DeleteList(p) \/ DeleteRemove(p)

\* One invocation at a time: the lifecycle framework's calls on one resource.
Next ==
    \/ UpdateBegin(Main)
    \/ UpdateAdd(Main)
    \/ UpdateReadBack(Main)
    \/ ReadDatasourcePermissions(Main)
    \/ DeleteList(Main)
    \/ DeleteRemove(Main)

Spec == Init /\ [][Next]_vars

Other == "p2"

\* Invocations that overlap: nothing in the handlers keeps a second handler
\* for the same datasource from running between two remote calls of a first.
\* One Create/Update in the first slot and one Delete in the second, each
\* starting and taking its steps at any point of the other.
ConcNext ==
    \/ pc[Main] = "idle" /\ UpdateBegin(Main)
    \/ UpdateAdd(Main)
    \/ UpdateReadBack(Main)
    \/ pc[Other] = "idle" /\ DeleteList(Other)
    \/ DeleteRemove(Other)

ConcSpec == Init /\ [][ConcNext]_vars

-----------------------------------------------------------------------------
(* Vocabulary of the properties. *)

Done(p) == pc[p] = "done"
Log(p) == calls[p]
Running(p, name) == op[p].name = name

\* The message starts with the eleven characters of "status: 404".
BeginsWithStatus404(msg) ==
    /\ Len(msg) >= Len(Status404)
    /\ \A i \in 1..Len(Status404) : msg[i] = Status404[i]

\* The record the server should hold for a planned grant: team and user id
\* with -1 replaced by 0, and the permission encoded.
ExpectedRecord(g) ==
    [teamID |-> IF g.team_id = -1 THEN 0 ELSE g.team_id,
     userID |-> IF g.user_id = -1 THEN 0 ELSE g.user_id,
     permission |-> IF g.permission = "Query" THEN 1 ELSE -1]

Args(log, from, to) == [i \in 1..(to - from + 1) |-> log[from + i - 1].arg]

-----------------------------------------------------------------------------
(* C1: partial failure of Create/Update.  If the k-th AddDatasourcePermission
   call of an invocation fails, it is the last remote call of the invocation
   (calls k+1..n are not issued, nothing is removed), the handler has returned
   the error of call k, and the server holds what it held before followed by
   the payloads of calls 1..k-1, which are the records of k-1 distinct grants
   of the desired set; the n-k+1 other grants are still to do. *)
C1_PartialFailure ==
    \A p \in Procs :
        Running(p, "Update") =>
            \A k \in 1..Len(Log(p)) :
                (Log(p)[k].api = "Add" /\ Log(p)[k].err # NoErr) =>
                    /\ k = Len(Log(p))
                    /\ Done(p)
                    /\ result[p] = Failed(Log(p)[k].err)
                    /\ \A i \in 1..(k - 1) :
                          Log(p)[i].api = "Add" /\ Log(p)[i].err = NoErr
                    /\ records = pre[p].records \o Args(Log(p), 1, k - 1)
                    /\ {Log(p)[i].arg : i \in 1..(k - 1)}
                          = {ExpectedRecord(g) : g \in op[p].desired \ todo[p]}
                    /\ Cardinality(todo[p])
                          = Cardinality(op[p].desired) - (k - 1)

\* Three desired grants, the second call failed: one grant was added.
C1_Witness ==
    /\ Running(Main, "Update")
    /\ Done(Main)
    /\ Cardinality(op[Main].desired) = 3
    /\ Len(Log(Main)) = 2
    /\ Log(Main)[2].err = ErrServer
    /\ Len(records) = Len(pre[Main].records) + 1

(* C2: Delete.  After a successful list call that returned N records, the
   j-th RemoveDatasourcePermission call is keyed by the permission code of the
   j-th listed record; a failed removal is the last call and its error is
   returned; Delete returns success exactly when N removals were issued and
   all succeeded. *)
C2_DeleteCalls ==
    \A p \in Procs :
        (/\ Running(p, "Delete")
         /\ Log(p) # <<>>
         /\ Log(p)[1].err = NoErr) =>
            LET N == Len(Log(p)[1].ret) IN
            /\ Log(p)[1].api = "List"
            /\ Len(Log(p)) <= N + 1
            /\ \A j \in 2..Len(Log(p)) :
                  /\ Log(p)[j].api = "Remove"
                  /\ Log(p)[j].arg = Log(p)[1].ret[j - 1].permission
                  /\ Log(p)[j].err # NoErr =>
                        /\ j = Len(Log(p))
                        /\ Done(p)
                        /\ result[p] = Failed(Log(p)[j].err)
            /\ result[p] = Ok <=> (Len(Log(p)) = N + 1 /\ AllOk(Log(p)))
            /\ Done(p) <=> (Len(Log(p)) = N + 1 \/ ~AllOk(Log(p)))

\* Two records with different codes were listed and both removals succeeded.
C2_Witness ==
    /\ Running(Main, "Delete")
    /\ Done(Main)
    /\ result[Main] = Ok
    /\ Len(Log(Main)) = 3
    /\ Log(Main)[2].arg # Log(Main)[3].arg

(* C3: not-found on the list call of Read and Delete.  If the list call fails
   with a message beginning with "status: 404", the handler has returned
   success with the id cleared, the list call is its only remote call, and the
   server's records are as they were. *)
C3_NotFoundOnList ==
    \A p \in Procs :
        (/\ Running(p, "Read") \/ Running(p, "Delete")
         /\ Log(p) # <<>>
         /\ BeginsWithStatus404(Log(p)[1].err)) =>
            /\ Log(p)[1].api = "List"
            /\ Len(Log(p)) = 1
            /\ Done(p)
            /\ result[p] = Ok
            /\ d[p].id = EmptyId
            /\ records = pre[p].records

\* Delete of a tracked resource with records met the not-found error.
C3_Witness ==
    /\ Running(Main, "Delete")
    /\ Log(Main) # <<>>
    /\ BeginsWithStatus404(Log(Main)[1].err)
    /\ pre[Main].id # EmptyId
    /\ records # <<>>

Last(log) == log[Len(log)]

DigitValue(c) ==
    CASE c = "0" -> 0 [] c = "1" -> 1 [] c = "2" -> 2 [] c = "3" -> 3
      [] c = "4" -> 4 [] c = "5" -> 5 [] c = "6" -> 6 [] c = "7" -> 7
      [] c = "8" -> 8 [] c = "9" -> 9

RECURSIVE ParseNat(_)
ParseNat(s) ==
    IF s = <<>> THEN 0
    ELSE 10 * ParseNat(SubSeq(s, 1, Len(s) - 1)) + DigitValue(s[Len(s)])

\* s is the decimal string form of n: an optional "-", then digits without a
\* leading zero, whose value is n.
IsDecimalOf(s, n) ==
    LET digits == IF n < 0 THEN Tail(s) ELSE s IN
    /\ s # <<>>
    /\ n < 0 => s[1] = "-"
    /\ digits # <<>>
    /\ \A i \in 1..Len(digits) :
          digits[i] \in {"0","1","2","3","4","5","6","7","8","9"}
    /\ Len(digits) > 1 => digits[1] # "0"
    /\ ParseNat(digits) = (IF n < 0 THEN -n ELSE n)

Range(seq) == {seq[i] : i \in 1..Len(seq)}

\* The sequence holds exactly one record Rec(g) per grant g of D.
OneRecordPerGrant(seq, D, Rec(_)) ==
    /\ Len(seq) = Cardinality(D)
    /\ \E f \in [1..Len(seq) -> D] :
          /\ \A i, j \in 1..Len(seq) : f[i] = f[j] => i = j
          /\ \A i \in 1..Len(seq) : seq[i] = Rec(f[i])

\* The record with the grant's ids as they are, and the encoded permission.
LiteralRecord(g) ==
    [teamID |-> g.team_id,
     userID |-> g.user_id,
     permission |-> IF g.permission = "Query" THEN 1 ELSE -1]

-----------------------------------------------------------------------------
(* C4 as claimed: whichever remote call of a handler fails with a not-found
   error, the handler returns success with the id cleared. *)
C4_NotFoundNeverSurfaced ==
    \A p \in Procs :
        \A k \in 1..Len(Log(p)) :
            BeginsWithStatus404(Log(p)[k].err) =>
                /\ Done(p)
                /\ result[p] = Ok
                /\ d[p].id = EmptyId

(* C4 amended: a not-found error ends the handler.  From the list call (of
   Read, of Delete, of the read-back of Create/Update) it gives success with
   the id cleared; from AddDatasourcePermission or RemoveDatasourcePermission
   it is returned to the caller and the id is what it was when the handler
   began. *)
C4_NotFoundOutcome ==
    \A p \in Procs :
        \A k \in 1..Len(Log(p)) :
            BeginsWithStatus404(Log(p)[k].err) =>
                /\ k = Len(Log(p))
                /\ Done(p)
                /\ IF Log(p)[k].api = "List"
                   THEN result[p] = Ok /\ d[p].id = EmptyId
                   ELSE result[p] = Failed(Log(p)[k].err) /\ d[p].id = pre[p].id

\* The read-back of an Update of a tracked resource met the not-found error.
C4_Witness ==
    /\ Running(Main, "Update")
    /\ Len(Log(Main)) > 1
    /\ Last(Log(Main)).api = "List"
    /\ BeginsWithStatus404(Last(Log(Main)).err)
    /\ pre[Main].id # EmptyId

(* C5: items omitted from the declared permissions are removed.  After a
   successful Update with a non-empty desired set, no record the server held
   before that is the record of no desired grant is still on the server. *)
C5_OmittedItemsRemoved ==
    \A p \in Procs :
        (/\ Running(p, "Update")
         /\ Done(p)
         /\ result[p] = Ok
         /\ op[p].desired # {}) =>
            \A r \in Range(pre[p].records) :
                r \notin {ExpectedRecord(g) : g \in op[p].desired} =>
                    r \notin Range(records)

(* C6 as claimed: whenever Create/Update with a non-empty desired set returns
   success, the id is the decimal string of the datasource id. *)
C6_IdAfterSuccess ==
    \A p \in Procs :
        (/\ Running(p, "Update")
         /\ Done(p)
         /\ result[p] = Ok
         /\ op[p].desired # {}) =>
            IsDecimalOf(d[p].id, datasourceID)

(* C6 amended: whenever Create/Update with a non-empty desired set returns
   success, the id is the decimal string of the datasource id, unless the
   read-back's list call failed with a not-found error, and then the id is
   empty. *)
C6_IdAfterSuccessUnlessGone ==
    \A p \in Procs :
        (/\ Running(p, "Update")
         /\ Done(p)
         /\ result[p] = Ok
         /\ op[p].desired # {}) =>
            IF BeginsWithStatus404(Last(Log(p)).err)
            THEN d[p].id = EmptyId
            ELSE IsDecimalOf(d[p].id, datasourceID)

\* A first Update succeeded, read-back included, and set the id.
C6_Witness ==
    /\ Running(Main, "Update")
    /\ Done(Main)
    /\ result[Main] = Ok
    /\ op[Main].desired # {}
    /\ AllOk(Log(Main))
    /\ pre[Main].id = EmptyId
    /\ d[Main].id # EmptyId

(* C7 as claimed: from a server without records, after Create/Update with
   desired set D returned success the server lists exactly one record per
   grant of D, carrying the grant's team id, user id and encoded permission. *)
C7_ApplyThenRead ==
    \A p \in Procs :
        (/\ Running(p, "Update")
         /\ Done(p)
         /\ result[p] = Ok
         /\ pre[p].records = <<>>) =>
            OneRecordPerGrant(records, op[p].desired, LiteralRecord)

(* C7 amended: as claimed, except that a team id or user id of -1 in the grant
   is listed as 0. *)
C7_ApplyThenReadUnsetAsZero ==
    \A p \in Procs :
        (/\ Running(p, "Update")
         /\ Done(p)
         /\ result[p] = Ok
         /\ pre[p].records = <<>>) =>
            OneRecordPerGrant(records, op[p].desired, ExpectedRecord)

\* Desired {team 5, "Query"} on an empty server: one record, team 5, code 1.
C7_Witness ==
    /\ Running(Main, "Update")
    /\ Done(Main)
    /\ result[Main] = Ok
    /\ pre[Main].records = <<>>
    /\ op[Main].desired = {[team_id |-> 5, user_id |-> 0, permission |-> "Query"]}
    /\ records = <<[teamID |-> 5, userID |-> 0, permission |-> 1]>>

(* C8: an empty desired set is a no-op.  Create/Update with an empty set has
   returned success without a remote call, and the server's records and the
   id are what they were before. *)
C8_EmptyDesiredNoOp ==
    \A p \in Procs :
        (Running(p, "Update") /\ op[p].desired = {}) =>
            /\ Done(p)
            /\ Log(p) = <<>>
            /\ result[p] = Ok
            /\ records = pre[p].records
            /\ d[p].id = pre[p].id

\* An Update with an empty set on a tracked resource whose server has records.
C8_Witness ==
    /\ Running(Main, "Update")
    /\ op[Main].desired = {}
    /\ Done(Main)
    /\ pre[Main].records # <<>>
    /\ pre[Main].id # EmptyId

(* C9: reconciliation is idempotent.  When Create/Update with desired set D
   ran with every remote call succeeding, and ran again with the same D and
   every remote call succeeding, the server's records, the local permissions
   and the id after the second run are those after the first. *)
C9_Idempotent ==
    \A p \in Procs :
        (/\ Running(p, "Update")
         /\ Done(p)
         /\ result[p] = Ok
         /\ AllOk(Log(p))
         /\ prev[p] = [op |-> op[p], clean |-> TRUE]) =>
            /\ records = pre[p].records
            /\ d[p].permissions = pre[p].permissions
            /\ d[p].id = pre[p].id

(* C10: codec round trip.  Decoding the code of every permission of the
   schema's allow-list gives the permission back; and after a Create/Update
   whose read-back succeeded, every desired grant with such a permission is
   in the local permissions with that same permission. *)
C10_CodecRoundTrip ==
    /\ \A s \in ValidPermissions :
          mapDatasourcePermissionInt64ToString(
              mapDatasourcePermissionStringToInt64(s)) = s
    /\ \A p \in Procs :
          (/\ Running(p, "Update")
           /\ Done(p)
           /\ Log(p) # <<>>
           /\ Last(Log(p)).api = "List"
           /\ Last(Log(p)).err = NoErr) =>
              \A g \in op[p].desired :
                  g.permission \in ValidPermissions =>
                      \E item \in d[p].permissions :
                          /\ item.permission = g.permission
                          /\ item.team_id = ExpectedRecord(g).teamID
                          /\ item.user_id = ExpectedRecord(g).userID

\* A grant with permission "Query" was added and read back as "Query".
C10_Witness ==
    /\ Running(Main, "Update")
    /\ Done(Main)
    /\ Log(Main) # <<>>
    /\ Last(Log(Main)).api = "List"
    /\ Last(Log(Main)).err = NoErr
    /\ \E g \in op[Main].desired : g.permission = "Query"
    /\ \E item \in d[Main].permissions : item.permission = "Query"

\* The payloads of the successful AddDatasourcePermission calls, in order.
AddedArgs(log) ==
    LET added == SelectSeq(log, LAMBDA c : c.api = "Add" /\ c.err = NoErr)
    IN [i \in 1..Len(added) |-> added[i].arg]

UnknownSymbols == {"bogus", "query", "Edit", ""}
UnknownCodes == {9999, 0, 2, -1}

-----------------------------------------------------------------------------
(* C11: unrecognized permissions are coerced to the sentinel.  The encoder
   gives -1 for every unrecognized symbol and the decoder "-1" for every
   unrecognized code; Create/Update returns no error but the error of a remote
   call, and for every desired grant it got to, recognized or not, it issued
   the AddDatasourcePermission call, with code -1 when the symbol is not
   recognized; when it returns success it got to every desired grant. *)
C11_UnrecognizedCoerced ==
    /\ \A s \in UnknownSymbols : mapDatasourcePermissionStringToInt64(s) = -1
    /\ \A c \in UnknownCodes : mapDatasourcePermissionInt64ToString(c) = "-1"
    /\ \A p \in Procs :
          Running(p, "Update") =>
              /\ result[p].status = "error" =>
                    /\ Log(p) # <<>>
                    /\ result[p].err = Last(Log(p)).err
              /\ (Done(p) /\ result[p] = Ok) => todo[p] = {}
              /\ \A g \in op[p].desired \ todo[p] :
                    g.permission \notin ValidPermissions =>
                        \E k \in 1..Len(Log(p)) :
                            /\ Log(p)[k].api = "Add"
                            /\ Log(p)[k].arg.permission = -1
                            /\ Log(p)[k].arg.teamID = ExpectedRecord(g).teamID
                            /\ Log(p)[k].arg.userID = ExpectedRecord(g).userID

\* An Update whose only grant has the permission "bogus" returned success
\* after an add call with code -1.
C11_Witness ==
    /\ Running(Main, "Update")
    /\ Done(Main)
    /\ result[Main] = Ok
    /\ op[Main].desired = {[team_id |-> 5, user_id |-> 2, permission |-> "bogus"]}
    /\ Log(Main)[1].api = "Add"
    /\ Log(Main)[1].arg.permission = -1

(* C12: Create/Update only adds.  An invocation of Create/Update issues no
   RemoveDatasourcePermission call, and the records the server held when it
   began are still there, in place, followed by what it added. *)
C12_UpdateOnlyAdds ==
    \A p \in Procs :
        Running(p, "Update") =>
            /\ \A k \in 1..Len(Log(p)) : Log(p)[k].api # "Remove"
            /\ records = pre[p].records \o AddedArgs(Log(p))

\* An Update added a record of the code a record on the server already had.
C12_Witness ==
    /\ Running(Main, "Update")
    /\ Done(Main)
    /\ result[Main] = Ok
    /\ pre[Main].records # <<>>
    /\ Len(records) > Len(pre[Main].records)
    /\ records[Len(records)].permission = pre[Main].records[1].permission

(* C13 as claimed: every add payload carries the team id and the user id of
   its grant as they are (0 when at the default 0). *)
C13_SubjectIdsUnchanged ==
    \A p \in Procs :
        Running(p, "Update") =>
            OneRecordPerGrant(AddedArgs(Log(p)), op[p].desired \ todo[p],
                              LiteralRecord)

(* C13 amended: every add payload carries the team id and the user id of its
   grant, a default 0 as 0 and both possibly set, except that an id of -1 is
   sent as 0. *)
C13_SubjectIdsUnsetAsZero ==
    \A p \in Procs :
        Running(p, "Update") =>
            /\ OneRecordPerGrant(AddedArgs(Log(p)), op[p].desired \ todo[p],
                                 ExpectedRecord)
            /\ \A k \in 1..Len(Log(p)) :
                  (Log(p)[k].api = "Add" /\ Log(p)[k].err # NoErr) =>
                      \E g \in todo[p] : Log(p)[k].arg = ExpectedRecord(g)

\* Payloads were sent with both ids set, with a default user id, and for a
\* grant with -1.
C13_Witness ==
    /\ Running(Main, "Update")
    /\ \E i, j, k \in 1..Len(AddedArgs(Log(Main))) :
          /\ AddedArgs(Log(Main))[i].teamID = 5
          /\ AddedArgs(Log(Main))[i].userID = 2
          /\ AddedArgs(Log(Main))[j].teamID = 5
          /\ AddedArgs(Log(Main))[j].userID = 0
          /\ AddedArgs(Log(Main))[k].teamID = 0
          /\ AddedArgs(Log(Main))[k].userID = 0

(* C14: classification of the list call's error in Read and Delete.  The
   error is treated as not-found (success, id cleared) exactly when its
   message begins with "status: 404"; any other error is returned as it is,
   with the id and the local permissions as they were, after no other remote
   call and with the server's records untouched. *)
C14_ListErrorClassification ==
    \A p \in Procs :
        (/\ Running(p, "Read") \/ Running(p, "Delete")
         /\ Log(p) # <<>>
         /\ Log(p)[1].err # NoErr) =>
            /\ Done(p)
            /\ Len(Log(p)) = 1
            /\ records = pre[p].records
            /\ d[p].permissions = pre[p].permissions
            /\ IF BeginsWithStatus404(Log(p)[1].err)
               THEN result[p] = Ok /\ d[p].id = EmptyId
               ELSE result[p] = Failed(Log(p)[1].err) /\ d[p].id = pre[p].id

\* Delete of a tracked resource met an error that holds "status: 404" but
\* does not begin with it.
C14_Witness ==
    /\ Running(Main, "Delete")
    /\ Log(Main) # <<>>
    /\ Log(Main)[1].err = ErrWrapped
    /\ pre[Main].id # EmptyId
    /\ records # <<>>

\* The state item of a record: its ids, and "Query" for code 1, else "-1".
DecodedItem(r) ==
    [team_id |-> r.teamID,
     user_id |-> r.userID,
     permission |-> IF r.permission = 1 THEN "Query" ELSE "-1"]

(* C15: Delete does not clear the id on its success path.  When the list call
   and every removal succeeded (also with no record listed), Delete has
   returned success with the id it began with; whenever Delete changed the id,
   its list call had failed with a not-found error. *)
C15_DeleteKeepsId ==
    \A p \in Procs :
        Running(p, "Delete") =>
            /\ (Done(p) /\ AllOk(Log(p))) =>
                  result[p] = Ok /\ d[p].id = pre[p].id
            /\ d[p].id # pre[p].id =>
                  /\ Log(p) # <<>>
                  /\ BeginsWithStatus404(Log(p)[1].err)

\* Delete of a tracked resource removed two records and returned success.
C15_Witness ==
    /\ Running(Main, "Delete")
    /\ Done(Main)
    /\ AllOk(Log(Main))
    /\ Len(Log(Main)) = 3
    /\ pre[Main].id # EmptyId
    /\ d[Main].id = pre[Main].id

(* C16 as claimed: after a successful Read, and after a successful
   Create/Update with a non-empty desired set, the local permissions are the
   state items of exactly the records the operation's list call returned. *)
C16_LocalViewIsListed ==
    \A p \in Procs :
        (/\ \/ Running(p, "Read")
            \/ Running(p, "Update") /\ op[p].desired # {}
         /\ Done(p)
         /\ result[p] = Ok) =>
            d[p].permissions = {DecodedItem(r) : r \in Range(Last(Log(p)).ret)}

(* C16 amended: after a successful Read or Create/Update (non-empty desired
   set) whose list call succeeded, the local permissions are the state items
   of exactly the records that call returned; when the operation succeeded
   because its list call failed with a not-found error, the local permissions
   are left as they were: the caller's input for Create/Update, the earlier
   state for Read. *)
C16_LocalViewIsListedIfListed ==
    \A p \in Procs :
        (/\ \/ Running(p, "Read")
            \/ Running(p, "Update") /\ op[p].desired # {}
         /\ Done(p)
         /\ result[p] = Ok) =>
            IF Last(Log(p)).err = NoErr
            THEN d[p].permissions =
                    {DecodedItem(r) : r \in Range(Last(Log(p)).ret)}
            ELSE d[p].permissions =
                    (IF Running(p, "Update") THEN op[p].desired
                     ELSE pre[p].permissions)

\* A grant sent as "bogus" and a record of code 2 are both read back as "-1".
C16_Witness ==
    /\ Running(Main, "Update")
    /\ Done(Main)
    /\ result[Main] = Ok
    /\ op[Main].desired = {[team_id |-> 5, user_id |-> 2, permission |-> "bogus"]}
    /\ Last(Log(Main)).err = NoErr
    /\ [team_id |-> 5, user_id |-> 2, permission |-> "-1"] \in d[Main].permissions
    /\ [team_id |-> 0, user_id |-> 2, permission |-> "-1"] \in d[Main].permissions

(* C18 as claimed: whenever Create/Update returns an error, the id is the one
   it began with. *)
C18_IdUnchangedOnError ==
    \A p \in Procs :
        (/\ Running(p, "Update")
         /\ Done(p)
         /\ result[p].status = "error") =>
            d[p].id = pre[p].id

(* C18 amended: when Create/Update returns the error of an
   AddDatasourcePermission call, the id is the one it began with; when it
   returns the error of the read-back's list call, the id is already the
   decimal string of the datasource id. *)
C18_IdOnError ==
    \A p \in Procs :
        (/\ Running(p, "Update")
         /\ Done(p)
         /\ result[p].status = "error") =>
            IF Last(Log(p)).api = "Add"
            THEN d[p].id = pre[p].id
            ELSE /\ Last(Log(p)).api = "List"
                 /\ IsDecimalOf(d[p].id, datasourceID)

\* A first Update failed in its read-back and left the id set.
C18_Witness ==
    /\ Running(Main, "Update")
    /\ Done(Main)
    /\ result[Main] = Failed(ErrServer)
    /\ Last(Log(Main)).api = "List"
    /\ pre[Main].id = EmptyId
    /\ d[Main].id # EmptyId

(* C19: Delete empties the permissions.  With one invocation at a time,
   whenever Delete returned success after a list call that succeeded, the
   server holds no permission record. *)
C19_DeleteEmpties ==
    \A p \in Procs :
        (/\ Running(p, "Delete")
         /\ Done(p)
         /\ result[p] = Ok
         /\ Log(p)[1].err = NoErr) =>
            records = <<>>

\* Delete listed two records of the same code and left none.
C19_Witness ==
    /\ Running(Main, "Delete")
    /\ Done(Main)
    /\ result[Main] = Ok
    /\ Len(Log(Main)) = 3
    /\ Log(Main)[1].ret[1].permission = Log(Main)[1].ret[2].permission
    /\ records = <<>>

(* C20: Read does not change the server.  Read issues one remote call, the
   list call, and has then returned; the server's records are what they were;
   when the list call succeeded Read returned success with the id it began
   with. *)
C20_ReadOnlyLists ==
    \A p \in Procs :
        Running(p, "Read") =>
            /\ Done(p)
            /\ Len(Log(p)) = 1
            /\ Log(p)[1].api = "List"
            /\ records = pre[p].records
            /\ Log(p)[1].err = NoErr =>
                  result[p] = Ok /\ d[p].id = pre[p].id

\* Read of a tracked resource listed its records and kept the id.
C20_Witness ==
    /\ Running(Main, "Read")
    /\ Done(Main)
    /\ Log(Main)[1].err = NoErr
    /\ Log(Main)[1].ret # <<>>
    /\ pre[Main].id # EmptyId
    /\ d[Main].id = pre[Main].id

Codes(seq) == {seq[i].permission : i \in 1..Len(seq)}

(* C17: no isolation between overlapping invocations.  Delete lists once,
   before its first removal, and its removals follow that list whatever other
   invocations do meanwhile: the j-th removal has the code of the j-th listed
   record, and Delete returns success exactly after one successful removal
   per listed record; and no step of a Delete takes from the server a record
   whose code its list did not hold, so what an overlapping Create/Update
   added with another code stays.  (The witness is the interleaving of the
   claim.) *)
DeleteFollowsItsSnapshot ==
    \A q \in Procs :
        (/\ Running(q, "Delete")
         /\ Log(q) # <<>>
         /\ Log(q)[1].err = NoErr) =>
            LET snapshot == Log(q)[1].ret IN
            /\ Log(q)[1].api = "List"
            /\ Len(Log(q)) <= Len(snapshot) + 1
            /\ \A j \in 2..Len(Log(q)) :
                  /\ Log(q)[j].api = "Remove"
                  /\ Log(q)[j].arg = snapshot[j - 1].permission
            /\ result[q] = Ok <=>
                  (Len(Log(q)) = Len(snapshot) + 1 /\ AllOk(Log(q)))

DeleteStepSparesOtherCodes ==
    \A q \in Procs :
        (/\ op'[q].name = "Delete"
         /\ calls'[q] # calls[q]) =>
            \A i \in 1..Len(records) :
                records[i].permission \notin Codes(calls'[q][1].ret) =>
                    \E j \in 1..Len(records') : records'[j] = records[i]

\* C17: with a Create/Update and a Delete of the same datasource interleaved
\* call by call and no mutual exclusion, the Delete removes exactly along the
\* list it read once, and no step of it removes a record whose code that list
\* did not hold.
C17_DeleteFollowsItsSnapshot ==
    /\ []DeleteFollowsItsSnapshot
    /\ [][DeleteStepSparesOtherCodes]_vars

\* A Create/Update and a Delete overlapped, every remote call succeeded and
\* both returned success, and the server holds neither nothing (Create/Update
\* then Delete) nor the records of the desired set (Delete then
\* Create/Update).
C17_Witness ==
    \E p, q \in Procs :
        /\ p # q
        /\ Running(p, "Update") /\ Done(p) /\ result[p] = Ok /\ AllOk(Log(p))
        /\ Running(q, "Delete") /\ Done(q) /\ result[q] = Ok /\ AllOk(Log(q))
        /\ op[p].desired # {}
        /\ records # <<>>
        /\ records # AddedArgs(Log(p))

====
